---------------------------- MODULE Spec2Model ----------------------------
(***************************************************************************)
(* A model of strava_analysis.py: the paginated fetch of the activity      *)
(* history (get_activities, get_all_activities), the table construction    *)
(* (activities_to_dataframe), the derived views (the daily distance of     *)
(* plot_distance_over_time, calculate_fastest_times) and main.             *)
(*                                                                         *)
(* Python values are modelled as follows.                                  *)
(*   - a raw activity (a JSON object) is a TLA+ record whose DOMAIN is the *)
(*     set of keys the object carries; a key the object lacks is absent    *)
(*     from the DOMAIN;                                                    *)
(*   - a DataFrame is [columns, rows]: df[c] raises KeyError iff c is not  *)
(*     in columns, and a cell is NaN/NaT iff the column exists and the     *)
(*     row's record lacks the key;                                         *)
(*   - a float is the exact rational [num, den] in lowest terms (the       *)
(*     rounding of binary floating point is not modelled);                 *)
(*   - an exception that escapes main is recorded in exc, pc = "raised".   *)
(***************************************************************************)
EXTENDS Integers, Sequences, FiniteSets, TLC

VARIABLES
    environ,        \* os.environ: the process environment
    upstream,       \* the history the API holds: how many non-empty pages
    pc,             \* position of the run in main
    access_token,   \* main's local access_token
    page,           \* get_all_activities' local page
    all_activities, \* get_all_activities' local all_activities
    requests,       \* every GET issued so far, in order
    served,         \* every response met so far, in order
    activities,     \* main's local activities: what get_all_activities returned
    df,             \* main's local df
    daily_distance, \* the daily_distance of each call of plot_distance_over_time
    fastest,        \* target |-> what calculate_fastest_times returned for it
    charts,         \* the charts shown so far (plt.show), in order
    exc             \* the exception that escaped, "none" if none

vars == <<environ, upstream, pc, access_token, page, all_activities, requests,
          served, activities, df, daily_distance, fastest, charts, exc>>

-----------------------------------------------------------------------------
(* Bounds of the model *)

\* the upstream holds at most this many non-empty pages in a finite history;
\* an endless upstream is followed for this many pages
MaxPages == 2

\* a served page carries at most this many records
MaxPerPage == 2

\* tables drawn for the aggregation functions have at most this many records
MaxRecords == 2

\* plot_distance_over_time is called at most this many times on one table
MaxCalls == 2

(* Program constants *)

\* get_activities' default per_page
PerPage == 200

\* the targets of plot_fastest_times, in km
FiveK == 5
TenK == 10

\* distance / 1000 and distance_km * 1000
MetersPerKm == 1000

\* Response.raise_for_status raises for 400 <= status_code < 600
HttpErrorLow == 400
HttpErrorHigh == 600


-----------------------------------------------------------------------------
(* Python values *)

\* the name of the environment variable main reads
TOKEN_VAR == "STRAVA_ACCESS_TOKEN"

\* Python's None, and a str, as what os.getenv can return
PyNone == [none |-> TRUE, s |-> ""]
PyStr(s) == [none |-> FALSE, s |-> s]

\* `not v` for v None or a str
NotStr(v) == v.none \/ v.s = ""

\* os.getenv(name): the variable's value, None if the variable is not set
os_getenv(name) ==
    IF name \in DOMAIN environ THEN PyStr(environ[name]) ELSE PyNone

\* the environments of the model: the variable unset, set to "", set to a token
Environments ==
    { [v \in {} |-> ""], [v \in {TOKEN_VAR} |-> ""], [v \in {TOKEN_VAR} |-> "tok"] }

(* Exact rationals for Python floats *)

RECURSIVE GCD(_, _)
GCD(a, b) == IF b = 0 THEN a ELSE GCD(b, a % b)

\* n / d in lowest terms, d > 0, n >= 0
Rat(n, d) ==
    LET g == GCD(n, d) IN [num |-> n \div g, den |-> d \div g]

RatAdd(x, y) == Rat(x.num * y.den + y.num * x.den, x.den * y.den)
RatMul(x, y) == Rat(x.num * y.num, x.den * y.den)
\* x / y for y > 0
RatDiv(x, y) == Rat(x.num * y.den, x.den * y.num)
RatLE(x, y) == x.num * y.den <= y.num * x.den
RatZero == Rat(0, 1)

(* Timestamps *)

\* The ISO-8601 strings of the model with the instant each denotes, as
\* pd.to_datetime reads it: the calendar day (of March 2024) and the second
\* of that day. The API writes start_date_local as the athlete's wall clock
\* with a Z suffix.
IsoTable ==
    [ s \in { "2024-03-01T23:30:00Z", "2024-03-02T04:30:00Z",
              "2024-03-02T07:00:00Z", "2024-03-03T07:00:00Z" } |->
        CASE s = "2024-03-01T23:30:00Z" -> [day |-> 1, sec |-> 84600]
          [] s = "2024-03-02T04:30:00Z" -> [day |-> 2, sec |-> 16200]
          [] s = "2024-03-02T07:00:00Z" -> [day |-> 2, sec |-> 25200]
          [] s = "2024-03-03T07:00:00Z" -> [day |-> 3, sec |-> 25200] ]

\* a string pd.to_datetime cannot read
BadDate == "yesterday"

\* pd.to_datetime raises on a value of the column it cannot read; a missing
\* value (NaN) becomes NaT
ToDatetimeRaises(rows, col) ==
    \E i \in 1..Len(rows) : col \in DOMAIN rows[i] /\ rows[i][col] \notin DOMAIN IsoTable

\* pd.to_datetime(df[col]) for one row: the row with the column's cell parsed
ToDatetimeRow(row, col) ==
    IF col \in DOMAIN row THEN [row EXCEPT ![col] = IsoTable[row[col]]] ELSE row

\* the row with column col set to value v (added if the row lacks it)
WithCell(row, col, v) ==
    [k \in DOMAIN row \cup {col} |-> IF k = col THEN v ELSE row[k]]

\* the row without column col (the cell is NaN)
WithoutCell(row, col) ==
    [k \in DOMAIN row \ {col} |-> row[k]]

RECURSIVE Concat(_)
\* the concatenation of a sequence of sequences
Concat(ss) == IF ss = <<>> THEN <<>> ELSE Head(ss) \o Concat(Tail(ss))

\* the sequences over S of length lo..hi
SeqsOf(S, lo, hi) == UNION { [1..n -> S] : n \in lo..hi }

-----------------------------------------------------------------------------
(* The upstream API *)

\* the activities the model's athlete has logged: each carries every field of
\* the API's record; RunA starts late in the evening, local time, so that its
\* UTC start falls on the next day
RunA ==
    [ id |-> 1, type |-> "Run", distance |-> 5000, moving_time |-> 1500,
      start_date |-> "2024-03-02T04:30:00Z",
      start_date_local |-> "2024-03-01T23:30:00Z" ]
RideB ==
    [ id |-> 2, type |-> "Ride", distance |-> 10000, moving_time |-> 3000,
      start_date |-> "2024-03-02T07:00:00Z",
      start_date_local |-> "2024-03-02T07:00:00Z" ]
FetchRecords == {RunA, RideB}

\* a str as an element of a list, told apart from an activity record
Str(s) == [str |-> s]

\* response bodies, each with what iterating over the parsed value yields: a
\* JSON array of records (its elements); a JSON object, the API's fault object
\* {"message": ..., "errors": ...} (its keys); JSON null; a body that is no JSON
ArrayBody(items) == [kind |-> "array", items |-> items]
ObjectBody == [kind |-> "object", items |-> <<Str("message"), Str("errors")>>]
NullBody == [kind |-> "null", items |-> <<>>]
HtmlBody == [kind |-> "html", items |-> <<>>]

\* a response: net = "down" when requests.get itself raises (no response)
Response(status, body) == [net |-> "ok", status |-> status, body |-> body]
NoResponse == [net |-> "down", status |-> 0, body |-> NullBody]

\* the histories of the model: n non-empty pages then empty pages for ever,
\* or non-empty pages for ever
Upstreams ==
    { [endless |-> FALSE, pages |-> n] : n \in 0..MaxPages }
        \cup { [endless |-> TRUE, pages |-> 0] }

\* page p of the history is non-empty
HasPage(p) == upstream.endless \/ p <= upstream.pages

\* the page the API serves for page number p when nothing goes wrong
GoodResponses(p) ==
    IF HasPage(p)
    THEN { Response(200, ArrayBody(items)) :
                items \in SeqsOf(FetchRecords, 1, MaxPerPage) }
    ELSE { Response(200, ArrayBody(<<>>)) }

\* what the API, or the network, can answer instead
FaultResponses ==
    { Response(st, ObjectBody) : st \in {401, 403, 429, 500} }
        \cup { Response(200, b) : b \in {ObjectBody, NullBody, HtmlBody} }
        \cup { NoResponse }

\* everything a GET of page p can meet. The model follows a run for
\* MaxPages + 1 requests: past MaxPages requests it follows no run whose
\* loop would go on
Responses(p) ==
    { r \in GoodResponses(p) \cup FaultResponses :
        /\ p <= MaxPages + 1
        /\ (p = MaxPages + 1 =>
               \/ r.net = "down"
               \/ r.status # 200
               \/ r.body.kind \in {"null", "html"}
               \/ r.body.items = <<>>) }

\* the response is the page the history holds, served as the API documents it
IsGood(resp) == resp.net = "ok" /\ resp.status = 200 /\ resp.body.kind = "array"

-----------------------------------------------------------------------------
(* get_activities *)

\* the GET get_activities issues
Request(token, per_page, pg) ==
    [ url |-> "https://www.strava.com/api/v3/athlete/activities",
      authorization |-> <<"Bearer", token>>,
      per_page |-> per_page, page |-> pg ]

\* Response.raise_for_status
raise_for_status(resp) ==
    resp.status >= HttpErrorLow /\ resp.status < HttpErrorHigh

\* Response.json raises when the body is not JSON
json_raises(resp) == resp.body.kind = "html"

\* the outcome of get_activities on the response its GET met: the exception
\* it raises ("none" if it returns) and the value it returns
get_activities(resp) ==
    IF resp.net = "down" THEN [raised |-> "ConnectionError", value |-> NullBody]
    ELSE IF raise_for_status(resp) THEN [raised |-> "HTTPError", value |-> NullBody]
    ELSE IF json_raises(resp) THEN [raised |-> "JSONDecodeError", value |-> NullBody]
    ELSE [raised |-> "none", value |-> resp.body]

(* get_all_activities *)

\* `not activities` for a parsed JSON value: an empty list, None
IsFalsy(value) == value.kind = "null" \/ value.items = <<>>

\* what list.extend(value) appends: the elements of a list, the keys of a dict
ExtendItems(value) == value.items

\* a bug: the page number advances by two
NextPage_SkipsOne(pg) == pg + 2

\* page += 1
NextPage(pg) == pg + 1

-----------------------------------------------------------------------------
(* activities_to_dataframe *)

\* a name not bound yet
Unbound == [bound |-> FALSE, val |-> <<>>]
Bound(v) == [bound |-> TRUE, val |-> v]
NoFrame == [bound |-> FALSE, columns |-> {}, rows |-> <<>>]
Frame(columns, rows) == [bound |-> TRUE, columns |-> columns, rows |-> rows]

\* the row pd.json_normalize makes of one element of the list: the object's
\* own keys; an element that is no object gives a row without cells
NormalizeRow(item) == IF "str" \in DOMAIN item THEN <<>> ELSE item

\* pd.json_normalize(activities): one row per element, in order; the columns
\* are the keys that occur; DataFrame() for the empty list
json_normalize(acts) ==
    LET rows == [i \in 1..Len(acts) |-> NormalizeRow(acts[i])]
    IN  Frame(UNION { DOMAIN rows[i] : i \in 1..Len(rows) }, rows)

\* a bug: records without distance or moving_time are dropped (a dropna)
json_normalize_DropsIncomplete(acts) ==
    json_normalize(SelectSeq(acts,
        LAMBDA a : {"distance", "moving_time"} \subseteq DOMAIN a))

\* the frame activities_to_dataframe starts from
NormalizedFrame(acts) == json_normalize(acts)

\* df[col] = pd.to_datetime(df[col]); frame is [raised, df]
to_datetime_column(frame, col) ==
    IF frame.raised # "none" THEN frame
    ELSE IF col \notin frame.df.columns
         THEN [raised |-> "KeyError", df |-> frame.df]
    ELSE IF ToDatetimeRaises(frame.df.rows, col)
         THEN [raised |-> "ValueError", df |-> frame.df]
    ELSE [ raised |-> "none",
           df |-> Frame(frame.df.columns,
                        [i \in 1..Len(frame.df.rows) |->
                            ToDatetimeRow(frame.df.rows[i], col)]) ]

\* the outcome of activities_to_dataframe: the exception it raises ("none"
\* if it returns) and the frame it returns
activities_to_dataframe(acts) ==
    to_datetime_column(
        to_datetime_column([raised |-> "none", df |-> NormalizedFrame(acts)],
                           "start_date"),
        "start_date_local")

-----------------------------------------------------------------------------
(* plot_distance_over_time *)

\* df["distance_km"] = df["distance"] / 1000.0, for one row
DistanceKmRow(row) ==
    IF "distance" \in DOMAIN row
    THEN WithCell(row, "distance_km", Rat(row.distance, MetersPerKm))
    ELSE WithoutCell(row, "distance_km")

\* a bug: the date is taken from start_date, the UTC start
DateRow_Utc(row) ==
    IF "start_date" \in DOMAIN row
    THEN WithCell(row, "date", row.start_date.day)
    ELSE WithoutCell(row, "date")

\* df["date"] = df["start_date_local"].dt.date, for one row
DateRow(row) ==
    IF "start_date_local" \in DOMAIN row
    THEN WithCell(row, "date", row.start_date_local.day)
    ELSE WithoutCell(row, "date")

RECURSIVE SumColumn(_, _, _, _)
\* the sum of column col over the rows whose column key is k, NaN skipped
SumColumn(rows, key, k, col) ==
    IF rows = <<>> THEN RatZero
    ELSE LET r == Head(rows)
             rest == SumColumn(Tail(rows), key, k, col)
         IN  IF key \in DOMAIN r /\ r[key] = k /\ col \in DOMAIN r
             THEN RatAdd(r[col], rest)
             ELSE rest

\* df.groupby(key)[col].sum(): one entry per value of key that occurs (rows
\* whose key is missing are dropped)
GroupBySum(rows, key, col) ==
    LET keys == { rows[i][key] : i \in { j \in 1..Len(rows) : key \in DOMAIN rows[j] } }
    IN  [k \in keys |-> SumColumn(rows, key, k, col)]

\* the outcome of plot_distance_over_time up to plt.show: the exception, the
\* frame with its two new columns, the daily_distance series
plot_distance_over_time(frame) ==
    IF "distance" \notin frame.columns \/ "start_date_local" \notin frame.columns
    THEN [raised |-> "KeyError", df |-> frame, daily_distance |-> <<>>]
    ELSE LET rows == [i \in 1..Len(frame.rows) |->
                         DateRow(DistanceKmRow(frame.rows[i]))]
         IN  [ raised |-> "none",
               df |-> Frame(frame.columns \cup {"distance_km", "date"}, rows),
               daily_distance |-> GroupBySum(rows, "date", "distance_km") ]

\* sns.countplot(x="type", data=df) raises when df has no such column
plot_activity_type_distribution(frame) ==
    IF "type" \in frame.columns THEN "none" ELSE "ValueError"

-----------------------------------------------------------------------------
(* calculate_fastest_times *)

\* what calculate_fastest_times can give: an exception, None, NaN, a float
Raised(e) == [raised |-> e, kind |-> "raised", val |-> RatZero]
ReturnNone == [raised |-> "none", kind |-> "None", val |-> RatZero]
ReturnNaN == [raised |-> "none", kind |-> "NaN", val |-> RatZero]
ReturnFloat(x) == [raised |-> "none", kind |-> "float", val |-> x]

\* a bug: > in place of >=
LongEnough_Strict(row, distance_km) ==
    "distance" \in DOMAIN row /\ row.distance > distance_km * MetersPerKm

\* df["distance"] >= distance_km * 1000, for one row (False on NaN)
LongEnough(row, distance_km) ==
    "distance" \in DOMAIN row /\ row.distance >= distance_km * MetersPerKm

\* subset = df[df["distance"] >= distance_km * 1000]: the rows kept, in order
Subset(rows, distance_km) ==
    SelectSeq(rows, LAMBDA r : LongEnough(r, distance_km))

\* pace_sec_per_km = moving_time / (distance / 1000), for a row of the subset
\* that has a moving_time
PaceSecPerKm(row) ==
    RatDiv(Rat(row.moving_time, 1), Rat(row.distance, MetersPerKm))

\* est_time_sec = pace_sec_per_km * distance_km
EstTimeSec(row, distance_km) == RatMul(PaceSecPerKm(row), Rat(distance_km, 1))

\* subset["est_time_sec"]: NaN for a row without moving_time
EstSeries(subset, distance_km) ==
    [i \in 1..Len(subset) |->
        IF "moving_time" \in DOMAIN subset[i]
        THEN ReturnFloat(EstTimeSec(subset[i], distance_km))
        ELSE ReturnNaN]

RECURSIVE SeriesMin(_)
\* Series.min(): the least value, NaN skipped; NaN when every value is NaN
SeriesMin(series) ==
    IF series = <<>> THEN ReturnNaN
    ELSE LET h == Head(series)
             m == SeriesMin(Tail(series))
         IN  IF h.kind = "NaN" THEN m
             ELSE IF m.kind = "NaN" THEN h
             ELSE IF RatLE(h.val, m.val) THEN h ELSE m

\* calculate_fastest_times(df, distance_km), distance_km > 0
calculate_fastest_times(frame, distance_km) ==
    IF "distance" \notin frame.columns THEN Raised("KeyError")
    ELSE LET subset == Subset(frame.rows, distance_km)
         IN  IF subset = <<>> THEN ReturnNone
             ELSE IF "moving_time" \notin frame.columns THEN Raised("KeyError")
             ELSE SeriesMin(EstSeries(subset, distance_km))

\* the targets of plot_fastest_times
PlotTargets == {FiveK, TenK}

\* plot_fastest_times up to plt.show: the exception it raises and the two
\* estimates; calculate_fastest_times(df, 5) is called first
plot_fastest_times(frame) ==
    LET r5 == calculate_fastest_times(frame, FiveK)
        r10 == calculate_fastest_times(frame, TenK)
        err == IF r5.raised # "none" THEN r5.raised ELSE r10.raised
    IN  [ raised |-> err,
          fastest |-> IF err # "none" THEN <<>>
                      ELSE [d \in PlotTargets |-> IF d = FiveK THEN r5 ELSE r10] ]

-----------------------------------------------------------------------------
(* main *)

\* a bug: the records of a page are put before those fetched so far
LoopStep_Prepends(all, pg, out) ==
    IF out.raised # "none"
    THEN [pc |-> "raised", exc |-> out.raised, all |-> all, page |-> pg,
          activities |-> Unbound]
    ELSE IF IsFalsy(out.value)
    THEN [pc |-> "build", exc |-> "none", all |-> all, page |-> pg,
          activities |-> Bound(all)]
    ELSE [pc |-> "fetch", exc |-> "none", all |-> ExtendItems(out.value) \o all,
          page |-> NextPage(pg), activities |-> Unbound]

\* a bug: a failed request ends the loop and what was fetched so far is returned
LoopStep_ReturnsPartial(all, pg, out) ==
    IF out.raised # "none" \/ IsFalsy(out.value)
    THEN [pc |-> "build", exc |-> "none", all |-> all, page |-> pg,
          activities |-> Bound(all)]
    ELSE [pc |-> "fetch", exc |-> "none", all |-> all \o ExtendItems(out.value),
          page |-> NextPage(pg), activities |-> Unbound]

\* a bug: the loop gives up after its second page
LoopStep_TwoPagesAtMost(all, pg, out) ==
    IF out.raised # "none"
    THEN [pc |-> "raised", exc |-> out.raised, all |-> all, page |-> pg,
          activities |-> Unbound]
    ELSE IF IsFalsy(out.value)
    THEN [pc |-> "build", exc |-> "none", all |-> all, page |-> pg,
          activities |-> Bound(all)]
    ELSE IF pg >= 2
    THEN [pc |-> "build", exc |-> "none", all |-> all \o ExtendItems(out.value),
          page |-> pg, activities |-> Bound(all \o ExtendItems(out.value))]
    ELSE [pc |-> "fetch", exc |-> "none", all |-> all \o ExtendItems(out.value),
          page |-> NextPage(pg), activities |-> Unbound]

\* one turn of get_all_activities' loop on the outcome of get_activities:
\* where the run goes and what the locals become
LoopStep(all, pg, out) ==
    IF out.raised # "none"
    THEN [pc |-> "raised", exc |-> out.raised, all |-> all, page |-> pg,
          activities |-> Unbound]
    ELSE IF IsFalsy(out.value)
    THEN [pc |-> "build", exc |-> "none", all |-> all, page |-> pg,
          activities |-> Bound(all)]
    ELSE [pc |-> "fetch", exc |-> "none", all |-> all \o ExtendItems(out.value),
          page |-> NextPage(pg), activities |-> Unbound]

\* a bug: `if access_token is None`
TokenMissing_IsNone(token) == token.none

\* `if not access_token: raise ValueError(...)`
TokenMissing(token) == NotStr(token)

\* main reads the token and, if there is one, enters get_all_activities
ReadToken ==
    /\ pc = "start"
    /\ access_token' = os_getenv(TOKEN_VAR)
    /\ IF TokenMissing(access_token')
       THEN /\ pc' = "raised"
            /\ exc' = "ValueError"
            /\ UNCHANGED <<page, all_activities>>
       ELSE /\ pc' = "fetch"
            /\ exc' = "none"
            /\ page' = 1
            /\ all_activities' = <<>>
    /\ UNCHANGED <<environ, upstream, requests, served, activities, df,
                   daily_distance, fastest, charts>>

\* one turn of the loop: get_activities(access_token, page=page) and what
\* follows it
FetchPage ==
    /\ pc = "fetch"
    /\ \E resp \in Responses(page) :
          LET step == LoopStep(all_activities, page, get_activities(resp))
          IN  /\ requests' = Append(requests, Request(access_token.s, PerPage, page))
              /\ served' = Append(served, resp)
              /\ pc' = step.pc
              /\ exc' = step.exc
              /\ all_activities' = step.all
              /\ page' = step.page
              /\ activities' = step.activities
    /\ UNCHANGED <<environ, upstream, access_token, df, daily_distance,
                   fastest, charts>>

\* df = activities_to_dataframe(activities)
BuildTable ==
    /\ pc = "build"
    /\ LET built == activities_to_dataframe(activities.val)
       IN  IF built.raised # "none"
           THEN /\ pc' = "raised"
                /\ exc' = built.raised
                /\ UNCHANGED df
           ELSE /\ pc' = "plot_distance"
                /\ df' = built.df
                /\ UNCHANGED exc
    /\ UNCHANGED <<environ, upstream, access_token, page, all_activities,
                   requests, served, activities, daily_distance, fastest, charts>>

\* plot_distance_over_time(df)
PlotDistance ==
    /\ pc = "plot_distance"
    /\ LET r == plot_distance_over_time(df)
       IN  IF r.raised # "none"
           THEN /\ pc' = "raised"
                /\ exc' = r.raised
                /\ UNCHANGED <<df, daily_distance, charts>>
           ELSE /\ pc' = "plot_types"
                /\ df' = r.df
                /\ daily_distance' = Append(daily_distance, r.daily_distance)
                /\ charts' = Append(charts, "Daily Distance Over Time")
                /\ UNCHANGED exc
    /\ UNCHANGED <<environ, upstream, access_token, page, all_activities,
                   requests, served, activities, fastest>>

\* plot_activity_type_distribution(df)
PlotTypes ==
    /\ pc = "plot_types"
    /\ LET e == plot_activity_type_distribution(df)
       IN  IF e # "none"
           THEN /\ pc' = "raised"
                /\ exc' = e
                /\ UNCHANGED charts
           ELSE /\ pc' = "plot_fastest"
                /\ charts' = Append(charts, "Distribution of Activity Types")
                /\ UNCHANGED exc
    /\ UNCHANGED <<environ, upstream, access_token, page, all_activities,
                   requests, served, activities, df, daily_distance, fastest>>

\* plot_fastest_times(df)
PlotFastest ==
    /\ pc = "plot_fastest"
    /\ LET r == plot_fastest_times(df)
       IN  IF r.raised # "none"
           THEN /\ pc' = "raised"
                /\ exc' = r.raised
                /\ UNCHANGED <<fastest, charts>>
           ELSE /\ pc' = "done"
                /\ fastest' = r.fastest
                /\ charts' = Append(charts, "Estimated Fastest 5K and 10K Times")
                /\ UNCHANGED exc
    /\ UNCHANGED <<environ, upstream, access_token, page, all_activities,
                   requests, served, activities, df, daily_distance>>

\* the state when main is entered
Init ==
    /\ environ \in Environments
    /\ upstream \in Upstreams
    /\ pc = "start"
    /\ access_token = PyNone
    /\ page = 0
    /\ all_activities = <<>>
    /\ requests = <<>>
    /\ served = <<>>
    /\ activities = Unbound
    /\ df = NoFrame
    /\ daily_distance = <<>>
    /\ fastest = <<>>
    /\ charts = <<>>
    /\ exc = "none"

Next ==
    \/ ReadToken
    \/ FetchPage
    \/ BuildTable
    \/ PlotDistance
    \/ PlotTypes
    \/ PlotFastest

Spec == Init /\ [][Next]_vars

\* the loop of get_all_activities keeps running: requests.get blocks until
\* it has a response or an error, and the next statement is then executed
FairSpec == Spec /\ WF_vars(FetchPage)

-----------------------------------------------------------------------------
(* The aggregation functions called on their own *)

\* RunA with another distance, moving_time and start_date_local
Activity(distance, moving_time, local) ==
    [RunA EXCEPT !.distance = distance, !.moving_time = moving_time,
                 !.start_date_local = local]

\* the records of S without the key col
Lacking(S, col) == { WithoutCell(r, col) : r \in S }

\* records that carry every field: on the evening of day 1 (RunA's local
\* start), and on the morning of day 2 or with a text that is no date
CompleteRecords ==
    { Activity(d, t, RunA.start_date_local) :
          d \in {3000, 5000, 10000}, t \in {0, 1500, 2800} }
        \cup { Activity(d, 3000, l) :
                 d \in {5000, 10000}, l \in {RideB.start_date_local, BadDate} }

\* the raw records the aggregation functions are given: the complete ones,
\* and records that lack a key
AggRecords ==
    CompleteRecords
        \cup Lacking({ Activity(5000, 1500, RunA.start_date_local),
                       Activity(5000, 3000, RideB.start_date_local) }, "distance")
        \cup Lacking({ Activity(d, 1500, RunA.start_date_local) :
                         d \in {3000, 5000, 10000} }, "moving_time")
        \cup Lacking(Lacking({RunA}, "distance"), "moving_time")
        \cup Lacking({ Activity(d, 3000, RunA.start_date_local) :
                         d \in {5000, 10000} }, "start_date_local")
        \cup Lacking({RunA}, "start_date")
        \cup Lacking({RideB}, "type")

\* the target distances calculate_fastest_times is called with, in km
Targets == {1, FiveK, TenK}

\* activities_to_dataframe(activities)
CallBuild ==
    /\ pc = "aggregate"
    /\ ~df.bound
    /\ LET built == activities_to_dataframe(activities.val)
       IN  /\ exc' = built.raised
           /\ df' = IF built.raised = "none" THEN built.df ELSE df
    /\ UNCHANGED <<environ, upstream, pc, access_token, page, all_activities,
                   requests, served, activities, daily_distance, fastest, charts>>

\* plot_distance_over_time(df), once more on the same df
CallPlotDistance ==
    /\ pc = "aggregate"
    /\ df.bound
    /\ Len(daily_distance) < MaxCalls
    /\ LET r == plot_distance_over_time(df)
       IN  /\ exc' = r.raised
           /\ IF r.raised # "none"
              THEN UNCHANGED <<df, daily_distance, charts>>
              ELSE /\ df' = r.df
                   /\ daily_distance' = Append(daily_distance, r.daily_distance)
                   /\ charts' = Append(charts, "Daily Distance Over Time")
    /\ UNCHANGED <<environ, upstream, pc, access_token, page, all_activities,
                   requests, served, activities, fastest>>

\* calculate_fastest_times(df, d)
CallFastest ==
    /\ pc = "aggregate"
    /\ df.bound
    /\ \E d \in Targets :
          LET r == calculate_fastest_times(df, d)
          IN  /\ exc' = r.raised
              /\ fastest' = [t \in {d} |-> r]
    /\ UNCHANGED <<environ, upstream, pc, access_token, page, all_activities,
                   requests, served, activities, df, daily_distance, charts>>

\* a list of raw records handed to the aggregation functions
InitAgg ==
    /\ environ = [v \in {TOKEN_VAR} |-> "tok"]
    /\ upstream = [endless |-> FALSE, pages |-> 0]
    /\ pc = "aggregate"
    /\ access_token = PyNone
    /\ page = 0
    /\ all_activities = <<>>
    /\ requests = <<>>
    /\ served = <<>>
    /\ activities \in { Bound(a) : a \in SeqsOf(AggRecords, 0, MaxRecords) }
    /\ df = NoFrame
    /\ daily_distance = <<>>
    /\ fastest = <<>>
    /\ charts = <<>>
    /\ exc = "none"

NextAgg ==
    \/ CallBuild
    \/ CallPlotDistance
    \/ CallFastest

SpecAgg == InitAgg /\ [][NextAgg]_vars

-----------------------------------------------------------------------------
(* Properties of the fetch *)

\* the served response i is a page of the history, served intact
GoodAt(i) == IsGood(served[i])

\* every response met so far is a page of the history, served intact
AllGood == \A i \in 1..Len(served) : GoodAt(i)

\* the records of each response met so far
PagesServed == [i \in 1..Len(served) |-> served[i].body.items]

\* the request whose response is served[i] failed: no response, an error
\* status, or a body that is no JSON
RequestFailed(i) ==
    \/ served[i].net = "down"
    \/ served[i].status \in {401, 403, 429, 500}
    \/ served[i].body.kind = "html"

\* get_all_activities has returned
Returned == activities.bound

\* C1 (result): when get_all_activities returns after a run of intact pages,
\* the pages were the n non-empty pages of the history and then one empty
\* page, and the value returned is the concatenation of those pages, in page
\* order, each record once and in its order within the page.
C1_Result ==
    (Returned /\ AllGood) =>
        /\ ~upstream.endless
        /\ Len(served) = upstream.pages + 1
        /\ \A i \in 1..upstream.pages : PagesServed[i] # <<>>
        /\ PagesServed[Len(served)] = <<>>
        /\ activities.val = Concat(PagesServed)
        /\ Len(activities.val) >= upstream.pages

\* C1 (termination): against a history of finitely many non-empty pages,
\* the loop, once entered, is left: get_all_activities returns unless a
\* request meets something other than an intact page.
C1_Terminates ==
    (pc = "fetch" /\ ~upstream.endless) ~> (Returned \/ ~AllGood)

\* C1: for an upstream that serves finitely many non-empty pages and then an
\* empty one, with no request failing, get_all_activities terminates and
\* returns exactly the concatenation of the non-empty pages in page order.
C1_FetchAllConcatenates == []C1_Result /\ C1_Terminates

\* C1 witness: two non-empty pages and the empty page were fetched, and the
\* records of both pages were returned
C1_Witness ==
    /\ Returned /\ AllGood
    /\ Len(served) = 3
    /\ Len(PagesServed[1]) = 2
    /\ PagesServed[1][1] # PagesServed[1][2]
    /\ activities.val = PagesServed[1] \o PagesServed[2]

\* C2: the requests issued are those of pages 1, 2, ... in that order, each
\* once and each with per_page = 200; a response is met for every request;
\* an empty page is the last response met (nothing is requested after it);
\* and after n non-empty pages and the empty one exactly n + 1 requests were
\* issued.
C2_RequestsInPageOrder ==
    /\ Len(requests) = Len(served)
    /\ \A i \in 1..Len(requests) :
          requests[i].page = i /\ requests[i].per_page = 200
    /\ \A i \in 1..Len(served) :
          (GoodAt(i) /\ PagesServed[i] = <<>>) => (i = Len(served) /\ Returned)
    /\ (pc = "fetch" => page = Len(requests) + 1)
    /\ (Returned /\ AllGood => Len(requests) = upstream.pages + 1)

\* C2 witness: two non-empty pages and an empty one, three requests
C2_Witness ==
    /\ Returned /\ AllGood
    /\ upstream.pages = 2
    /\ Len(requests) = 3
    /\ requests[3].page = 3
    /\ pc = "done"

\* the token the environment holds is absent: unset or empty
TokenAbsent == TOKEN_VAR \notin DOMAIN environ \/ environ[TOKEN_VAR] = ""

\* C3: with the token absent main raises ValueError and no request is ever
\* issued; a request is issued only once the check of the token has passed,
\* and it carries the token as its bearer.
C3_NoRequestWithoutToken ==
    /\ (TokenAbsent /\ pc # "start") =>
          (pc = "raised" /\ exc = "ValueError" /\ requests = <<>> /\ served = <<>>)
    /\ \A i \in 1..Len(requests) :
          /\ ~TokenAbsent
          /\ pc # "start"
          /\ requests[i].authorization = <<"Bearer", environ[TOKEN_VAR]>>

\* C3 witness: the variable is set to the empty string and main has raised
C3_Witness ==
    /\ TOKEN_VAR \in DOMAIN environ
    /\ TokenAbsent
    /\ pc = "raised"
    /\ exc = "ValueError"

\* C4: when a request fails, on whatever page, it is the last request (no
\* retry, no later page), get_all_activities returns nothing, not even the
\* records of the pages before, and main builds no table, no derived view
\* and no chart.
C4_FailureAbortsRun ==
    \A k \in 1..Len(served) :
        RequestFailed(k) =>
            /\ k = Len(served)
            /\ Len(requests) = k
            /\ \A i \in 1..(k - 1) : requests[i].page # requests[k].page
            /\ pc = "raised"
            /\ exc \in {"ConnectionError", "HTTPError", "JSONDecodeError"}
            /\ ~Returned
            /\ ~df.bound
            /\ daily_distance = <<>>
            /\ fastest = <<>>
            /\ charts = <<>>

\* C4 witness: the request of page 2 failed with records of page 1 in hand
C4_Witness ==
    /\ Len(served) = 2
    /\ GoodAt(1)
    /\ RequestFailed(2)
    /\ all_activities # <<>>
    /\ pc = "raised"

\* C5: a response whose token was rejected, a non-2xx response, and a
\* response whose body is not an array of records each make the fetch of
\* the page fail: such a response is the last one met, the run has raised,
\* and nothing of it is taken for a page of records.
C5_MalformedIsFailure ==
    \A k \in 1..Len(served) :
        ~GoodAt(k) =>
            /\ k = Len(served)
            /\ pc = "raised"
            /\ ~Returned
            /\ \A i \in 1..Len(all_activities) : "str" \notin DOMAIN all_activities[i]

\* C10: as long as every page requested came back non-empty and intact, the
\* loop is still running: it has not returned, nothing downstream has run,
\* the next page number is the one it is about to request, and the request
\* can be issued.
C10_LoopRunsWhilePagesNonEmpty ==
    (pc # "start" /\ ~TokenAbsent
        /\ \A i \in 1..Len(served) : GoodAt(i) /\ PagesServed[i] # <<>>) =>
        /\ pc = "fetch"
        /\ page = Len(served) + 1
        /\ Len(requests) = Len(served)
        /\ ENABLED FetchPage
        /\ ~Returned
        /\ ~df.bound
        /\ charts = <<>>
        /\ exc = "none"

\* C10 witness: an upstream that never serves an empty page has been asked
\* for MaxPages pages, and the loop is about to ask for the next
C10_Witness ==
    /\ upstream.endless
    /\ Len(served) = MaxPages
    /\ \A i \in 1..Len(served) : GoodAt(i) /\ PagesServed[i] # <<>>
    /\ pc = "fetch"
    /\ page = MaxPages + 1

-----------------------------------------------------------------------------
(* Properties of the aggregation *)

\* the raw records the table was built from
Raw == activities.val

\* the rows of the table that have a distance of at least d km
Qualifying(d) ==
    { i \in 1..Len(df.rows) :
        "distance" \in DOMAIN df.rows[i] /\ df.rows[i].distance >= d * 1000 }

\* the rational x is at most, or is, row i's moving_time / (distance / 1000) * d
AtMostEstimate(x, i, d) ==
    x.num * df.rows[i].distance <= df.rows[i].moving_time * 1000 * d * x.den
IsEstimate(x, i, d) ==
    x.num * df.rows[i].distance = df.rows[i].moving_time * 1000 * d * x.den

\* every row of the table has a distance and a moving_time
CompleteTable ==
    \A i \in 1..Len(df.rows) : {"distance", "moving_time"} \subseteq DOMAIN df.rows[i]

\* C6: on a table whose records have a distance and a moving_time,
\* calculate_fastest_times(df, d) returns None exactly when every record's
\* distance is below d * 1000 m; otherwise it returns a float that is at most
\* moving_time / (distance / 1000) * d of every record with distance >=
\* d * 1000 m and is that value for one of them.
C6_FastestIsMinimum ==
    \A d \in DOMAIN fastest :
        (df.bound /\ CompleteTable) =>
            /\ fastest[d].raised = "none"
            /\ (fastest[d].kind = "None") <=>
                   (\A i \in 1..Len(df.rows) : df.rows[i].distance < d * 1000)
            /\ Qualifying(d) # {} =>
                   /\ fastest[d].kind = "float"
                   /\ \A i \in Qualifying(d) : AtMostEstimate(fastest[d].val, i, d)
                   /\ \E i \in Qualifying(d) : IsEstimate(fastest[d].val, i, d)

\* C6 witness: the records {5000 m, 1500 s} and {10000 m, 3000 s} and d = 5
\* give 1500 s
C6_Witness ==
    /\ df.bound
    /\ Len(df.rows) = 2
    /\ CompleteTable
    /\ df.rows[1].distance = 5000 /\ df.rows[1].moving_time = 1500
    /\ df.rows[2].distance = 10000 /\ df.rows[2].moving_time = 3000
    /\ DOMAIN fastest = {5}
    /\ fastest[5].kind = "float"
    /\ fastest[5].val = [num |-> 1500, den |-> 1]

\* C7: when the list of raw records is empty, activities_to_dataframe
\* returns an empty table without raising, and calculate_fastest_times
\* returns None on it for every target.
C7_EmptyListGivesEmptyTable ==
    (Returned /\ Raw = <<>> /\ pc # "build") =>
        /\ exc = "none"
        /\ df.bound
        /\ df.rows = <<>>
        /\ \A d \in DOMAIN fastest : fastest[d].kind = "None"

\* the calendar day of a raw record's local start
LocalDay(rec) == IsoTable[rec.start_date_local].day

\* the raw records with a local start, and those of them on day k
Dated == { i \in 1..Len(Raw) : "start_date_local" \in DOMAIN Raw[i] }
OnDay(k) == { i \in Dated : LocalDay(Raw[i]) = k }

RECURSIVE Meters(_)
\* the distances, in meters, of the raw records of I that have one, summed
Meters(I) ==
    IF I = {} THEN 0
    ELSE LET i == CHOOSE j \in I : TRUE
         IN  (IF "distance" \in DOMAIN Raw[i] THEN Raw[i].distance ELSE 0)
                 + Meters(I \ {i})

RECURSIVE Thousandths(_, _)
\* the values of the mapping m on the keys K, summed, in thousandths
Thousandths(m, K) ==
    IF K = {} THEN 0
    ELSE LET k == CHOOSE j \in K : TRUE
         IN  m[k].num * (1000 \div m[k].den) + Thousandths(m, K \ {k})

\* C8: the daily_distance mapping has exactly the local start dates of the
\* records as its keys, each value is the sum of distance / 1000 of the
\* records of that date, the values sum to the distance_km of all records
\* with a local start date, and a second computation on the same table
\* gives the same mapping.
C8_DailyDistanceByLocalDate ==
    \A c \in 1..Len(daily_distance) :
        LET m == daily_distance[c]
        IN  /\ DOMAIN m = { LocalDay(Raw[i]) : i \in Dated }
            /\ \A k \in DOMAIN m :
                  /\ 1000 % m[k].den = 0
                  /\ m[k].num * 1000 = m[k].den * Meters(OnDay(k))
            /\ Thousandths(m, DOMAIN m) = Meters(Dated)
            /\ m = daily_distance[1]

\* C8 witness: a record that starts on day 1, local time, and on day 2, UTC,
\* and a record of day 2; the mapping, computed twice, has the days 1 and 2
C8_Witness ==
    /\ Len(daily_distance) = 2
    /\ Len(Raw) = 2
    /\ Dated = {1, 2}
    /\ LocalDay(Raw[1]) = 1
    /\ IsoTable[Raw[1].start_date].day = 2
    /\ DOMAIN daily_distance[2] = {1, 2}
    /\ daily_distance[2][1].num > 0

\* a raw record with every field the table and its views read, the dates
\* readable
WellFormed(rec) ==
    /\ {"distance", "moving_time", "start_date", "start_date_local"}
           \subseteq DOMAIN rec
    /\ rec.start_date \in DOMAIN IsoTable
    /\ rec.start_date_local \in DOMAIN IsoTable

\* row i of the table is raw record i: its keys, and its values but for the
\* two dates, which are parsed
SameRecord(i) ==
    /\ DOMAIN Raw[i] \subseteq DOMAIN df.rows[i]
    /\ \A k \in DOMAIN Raw[i] \ {"start_date", "start_date_local"} :
          df.rows[i][k] = Raw[i][k]
    /\ \A k \in DOMAIN Raw[i] \cap {"start_date", "start_date_local"} :
          df.rows[i][k] = IsoTable[Raw[i][k]]

=============================================================================
